---- MODULE Spec2Model ----
(***************************************************************************)
(* Frame-resource pipelining of TreeBillboardsApp (A2_Sarras_Asper.cpp):   *)
(* one CPU thread runs Update/Draw over a ring of gNumFrameResources frame *)
(* resources while the GPU consumes the command queue in submission order  *)
(* and reports progress through the fence's completed value.               *)
(*                                                                         *)
(* Floats are fixed-point integers: One is 1.0f, a time unit is 0.01 s.    *)
(* A 4x4 matrix is a tuple of four rows; code index (r, c) is M[r+1][c+1]. *)
(***************************************************************************)
EXTENDS Integers, Sequences, FiniteSets, TLC

\* ------------------------------------------------------------------ bounds
MaxTicks == 4                 \* Update/Draw pairs explored
MaxResizes == 1               \* WM_SIZE messages explored
NumRitems == 3                \* render items in mAllRitems (52 in the scene)
NumMaterials == 2             \* materials in mMaterials (8 in the scene)
SkippedObjCBIndex == 1        \* the ObjCBIndex BuildRenderItems leaves unused (27 in the scene)
DeltaTimes == {0, 600}        \* gt.DeltaTime() of a tick, in units of 0.01 s
WavesRows == 3                \* rows of the wave grid (128 in the scene)
WavesCols == 3                \* columns of the wave grid (128 in the scene)
HfRows == 5                   \* rows of the height field driven call by call
HfCols == 5                   \* its columns
MaxHfCalls == 4               \* calls made on it
StepDeltas == {1, 2, 4}       \* deltas handed to its Update, in units of 0.01 s
DisturbCoords == {0, 1, 2, HfRows}   \* rows and columns handed to its Disturb
Magnitudes == {1000}          \* magnitudes handed to its Disturb

\* ------------------------------------------------------- program constants
gNumFrameResources == 3
One == 5000                   \* 1.0f in units of 0.0002
TuRate == 5                   \* 0.1f  * 0.01 s, in units of 0.0002
TvRate == 1                   \* 0.02f * 0.01 s, in units of 0.0002
WavesTimeStep == 3            \* Waves dt 0.03f, in units of 0.01 s
WaterMatCBIndex == 1          \* water->MatCBIndex
InitialRadius == 75           \* mRadius = 75.0f
MinRadius == 5                \* Clamp(mRadius, 5.0f, 150.0f)
MaxRadius == 150

Slots == 0 .. (gNumFrameResources - 1)
Ritems == 1 .. NumRitems                  \* positions in mAllRitems
Mats == 0 .. (NumMaterials - 1)           \* materials by MatCBIndex
NoSlot == 0 - 1
Uninit == [Uninit |-> TRUE]               \* upload-heap memory never written

VARIABLES
    pc,                       \* where the CPU thread is
    mCurrFrameResourceIndex,
    mFrameResources,          \* slot -> [Fence, ObjectCB, MaterialCB, PassCB, WavesVB, CmdListAlloc]
    mCurrentFence,            \* D3DApp::mCurrentFence
    completed,                \* mFence->GetCompletedValue()
    mCommandQueue,            \* commands the GPU has not started yet, oldest first
    gpu,                      \* the command list the GPU is executing
    mCommandList,             \* slot whose buffers the recorded commands bind
    mAllRitems,               \* position -> [World, TexTransform, NumFramesDirty, ObjCBIndex]
    mMaterials,               \* MatCBIndex -> [MatTransform, NumFramesDirty, ...]
    mMainPassCB,
    mProj,
    mWaves,
    gt,                       \* [DeltaTime, TotalTime] of the current tick
    tick,                     \* history: Updates started
    resizes,                  \* history: OnResize calls
    lastWrites,               \* history: <<slot, buffer, element>> written by the last CPU step
    tickSteps,                \* history: the steps of the current tick, in the order taken
    acquired,                 \* history: the slot acquired by each Update, oldest first
    submitted,                \* history: the slots Draw has submitted
    mRadius,                  \* camera distance, in scene units
    mEyePos,
    thrown,                   \* a DxException is on its way to WinMain's handler
    gpuHung,                  \* the GPU has stopped consuming the queue for good
    mWavesRitemVB,            \* mWavesRitem->Geo->VertexBufferGPU: the slot whose WavesVB it is
    mCommandListBinds,        \* buffer -> slot whose buffer the recorded commands bind
    wavesCopied,              \* history: the elements the last UpdateWaves wrote, in order
    hf,                       \* a height field driven call by call
    hfElapsed,                \* history: the sum of the deltas handed to its Update
    hfCalls,                  \* history: calls made on it
    hfRejected,               \* the last Disturb on it was rejected
    hfCall,                   \* history: the last call made on it, with its arguments
    published,                \* history: the fence values Draw has published
    flushCount,               \* history: <<slot, buffer, element>> -> flush writes so far
    mSrvDescriptorHeap,       \* descriptor index -> the texture whose view was written there
    eventHandles              \* event handles created by Update and not closed

vars == <<pc, mCurrFrameResourceIndex, mFrameResources, mCurrentFence, completed,
          mCommandQueue, gpu, mCommandList, mAllRitems, mMaterials, mMainPassCB,
          mProj, mWaves, gt, tick, resizes, lastWrites, tickSteps, acquired, submitted, mRadius, mEyePos, thrown, gpuHung, mWavesRitemVB, mCommandListBinds, wavesCopied, hf, hfElapsed, hfCalls, hfRejected, hfCall, published, flushCount, mSrvDescriptorHeap, eventHandles>>

\* ---------------------------------------------------------------- matrices
Identity4x4 == << <<1, 0, 0, 0>>, <<0, 1, 0, 0>>, <<0, 0, 1, 0>>, <<0, 0, 0, 1>> >>

XMMatrixTranspose(M) == [r \in 1..4 |-> [c \in 1..4 |-> M[c][r]]]

XMMatrixTranslation(x, y, z) == [Identity4x4 EXCEPT ![4] = <<x, y, z, 1>>]

\* ------------------------------------------------------------------- waves
\* Waves(m, n, dx, dt, speed, damping): the stencil coefficients, in units of
\* 1 / KScale, for dx = 1.0f, dt = 0.03f, speed = 4.0f, damping = 0.2f.
KScale == 100000
WavesK1 == 0 - 99402
WavesK2 == 193659
WavesK3 == 1436
SpatialStep == One

VertexCount == WavesRows * WavesCols
WavesWidth == (WavesCols - 1) * SpatialStep
WavesDepth == (WavesRows - 1) * SpatialStep

RowOf(v) == v \div WavesCols
ColOf(v) == v % WavesCols
IsInterior(v) ==
    /\ RowOf(v) >= 1 /\ RowOf(v) <= WavesRows - 2
    /\ ColOf(v) >= 1 /\ ColOf(v) <= WavesCols - 2

\* A height field of m rows and n columns after construction: at rest, no
\* time accumulated.
WavesOf(m, n) ==
    [rows  |-> m,
     cols  |-> n,
     t     |-> 0,
     steps |-> 0,
     Prev  |-> [v \in 0 .. (m * n - 1) |-> 0],
     Curr  |-> [v \in 0 .. (m * n - 1) |-> 0]]

\* Line 203: the program's height field.
Waves == WavesOf(WavesRows, WavesCols)

\* Sample (i, j) of w is subject to the stencil: it is not on the outer boundary.
InteriorCell(w, i, j) ==
    /\ i >= 1 /\ i <= w.rows - 2
    /\ j >= 1 /\ j <= w.cols - 2

\* The height of sample v after one simulation step: an interior sample takes
\* the damped wave stencil of its two prior heights and its four neighbours,
\* a boundary sample stays.
NextHeight(w, v) ==
    IF InteriorCell(w, v \div w.cols, v % w.cols)
    THEN (WavesK1 * w.Prev[v] + WavesK2 * w.Curr[v]
          + WavesK3 * (w.Curr[v + w.cols] + w.Curr[v - w.cols]
                       + w.Curr[v + 1] + w.Curr[v - 1])) \div KScale
    ELSE w.Prev[v]

\* The new layer, sample by sample from v on.
RECURSIVE NextHeights(_, _)
NextHeights(w, v) ==
    IF v = w.rows * w.cols - 1 THEN v :> NextHeight(w, v)
    ELSE (v :> NextHeight(w, v)) @@ NextHeights(w, v + 1)

\* One simulation step: the new layer is computed and the layers rotate.
WavesStep(w) ==
    [w EXCEPT !.steps = w.steps + 1, !.Prev = w.Curr, !.Curr = NextHeights(w, 0)]

\* k simulation steps in a row, taken in two halves: the first half is
\* completed (x.h) before the second (x.j steps) begins.
RECURSIVE WavesAdvance(_, _)
WavesAdvance(w, k) ==
    IF k = 0 THEN w
    ELSE IF k = 1 THEN WavesStep(w)
    ELSE CHOOSE r \in {WavesAdvance(x.h, x.j) :
                          x \in {[h |-> WavesAdvance(w, k \div 2), j |-> k - (k \div 2)]}} : TRUE

\* Waves::Position(i): grid coordinates and the current height.
WavesPosition(w, v) ==
    <<ColOf(v) * SpatialStep - WavesWidth \div 2, w.Curr[v], WavesDepth \div 2 - RowOf(v) * SpatialStep>>

\* Waves::Normal(i): the direction of the normal, from the height differences
\* of the neighbours (the code keeps it normalised).
WavesNormal(w, v) ==
    IF IsInterior(v)
    THEN <<w.Curr[v - 1] - w.Curr[v + 1], 2 * SpatialStep, w.Curr[v + WavesCols] - w.Curr[v - WavesCols]>>
    ELSE <<0, 2 * SpatialStep, 0>>

\* ------------------------------------------------------------- scene build
\* BuildRenderItems numbers the items 0, 1, 2, ... by hand and skips one index.
ObjCBIndexOf(i) == IF i - 1 < SkippedObjCBIndex THEN i - 1 ELSE i

\* Elements of each slot's object constant buffer: (UINT)mAllRitems.size().
ObjectCBCount == NumRitems

\* Element indices CopyData can be handed; those >= ObjectCBCount lie past the buffer.
ObjectCBElems == 0 .. NumRitems

BuildRenderItems ==
    [i \in Ritems |->
        [World          |-> XMMatrixTranslation(i, 2 * i, 0 - i),
         TexTransform   |-> XMMatrixTranslation(0, 6, 0),
         NumFramesDirty |-> gNumFrameResources,
         ObjCBIndex     |-> ObjCBIndexOf(i)]]

BuildMaterials ==
    [m \in Mats |->
        [MatCBIndex     |-> m,
         DiffuseAlbedo  |-> IF m = WaterMatCBIndex THEN 5 ELSE 10,
         Roughness      |-> IF m = WaterMatCBIndex THEN 0 ELSE 125,
         MatTransform   |-> Identity4x4,
         NumFramesDirty |-> gNumFrameResources]]

\* Line 667: srvHeapDesc.NumDescriptors.
SrvHeapNumDescriptors == 7

\* Lines 692-740: the textures whose views are created, in heap order; the
\* handle starts at the heap start and moves on by one descriptor each time.
SrvTextures ==
    <<"grassTex", "waterTex", "fenceTex", "castleTex", "dirtTex", "windowTex",
      "castle2Tex", "treeArrayTex">>

BuildDescriptorHeaps == [d \in 0 .. (Len(SrvTextures) - 1) |-> SrvTextures[d + 1]]

\* Lines 1504-1583: each material's DiffuseSrvHeapIndex.
DiffuseSrvHeapIndex ==
    [grass |-> 0, water |-> 1, wirefence |-> 2, castle |-> 3, dirt |-> 4, window |-> 5,
     castle2 |-> 6, treeSprites |-> 7]

\* The texture loaded for each material (LoadTextures, lines 549-611).
MaterialTexture ==
    [grass |-> "grassTex", water |-> "waterTex", wirefence |-> "fenceTex",
     castle |-> "castleTex", dirt |-> "dirtTex", window |-> "windowTex",
     castle2 |-> "castle2Tex", treeSprites |-> "treeArrayTex"]

BuildFrameResources ==
    [s \in Slots |->
        [Fence        |-> 0,
         ObjectCB     |-> [k \in ObjectCBElems |-> Uninit],
         MaterialCB   |-> [m \in Mats |-> Uninit],
         PassCB       |-> Uninit,
         WavesVB      |-> [v \in 0 .. (VertexCount - 1) |-> Uninit],
         CmdListAlloc |-> "empty"]]

\* ------------------------------------------------------------ GPU commands
ExecuteCommandLists(s) == [op |-> "ExecuteCommandLists", slot |-> s, value |-> 0]
Signal(v) == [op |-> "Signal", slot |-> NoSlot, value |-> v]
GpuIdle == [busy |-> FALSE, slot |-> NoSlot]

Init ==
    /\ pc = "Initialize"
    /\ mCurrFrameResourceIndex = 0
    /\ mFrameResources = BuildFrameResources
    /\ mCurrentFence = 0
    /\ completed = 0
    /\ mCommandQueue = << >>
    /\ gpu = GpuIdle
    /\ mCommandList = NoSlot
    /\ mAllRitems = BuildRenderItems
    /\ mMaterials = BuildMaterials
    /\ mMainPassCB = Uninit
    /\ mProj = 0
    /\ mWaves = Waves
    /\ gt = [DeltaTime |-> 0, TotalTime |-> 0]
    /\ tick = 0
    /\ resizes = 0
    /\ lastWrites = {}
    /\ tickSteps = << >>
    /\ acquired = << >>
    /\ submitted = {}
    /\ mRadius = InitialRadius
    /\ mEyePos = 0
    /\ thrown = FALSE
    /\ gpuHung = FALSE
    /\ mWavesRitemVB = NoSlot
    /\ mCommandListBinds = [b \in {} |-> NoSlot]
    /\ wavesCopied = << >>
    /\ hf = WavesOf(HfRows, HfCols)
    /\ hfElapsed = 0
    /\ hfCalls = 0
    /\ hfRejected = FALSE
    /\ hfCall = << >>
    /\ published = {}
    /\ eventHandles = 0
    /\ mSrvDescriptorHeap = BuildDescriptorHeaps
    /\ flushCount = [k \in (Slots \X {"ObjectCB"} \X ObjectCBElems)
                           \cup (Slots \X {"MaterialCB"} \X Mats) |-> 0]


\* ------------------------------------------------------------ CPU helpers
\* Mutant: the pointer still addresses the slot of the tick before.
CurrSlotStale == (mCurrFrameResourceIndex + gNumFrameResources - 1) % gNumFrameResources

\* Update, line 251: mCurrFrameResource addresses the slot just cycled to.
CurrSlot == mCurrFrameResourceIndex

mCurrFrameResource == mFrameResources[CurrSlot]

\* Mutant: the element index is ignored.
CopyDataFirstElement(buffer, elementIndex, data) == [buffer EXCEPT ![0] = data]

\* UploadBuffer::CopyData(elementIndex, data) as the callers use it.
CopyData(buffer, elementIndex, data) == [buffer EXCEPT ![elementIndex] = data]

\* Mutant: the ring is cycled over one slot too few.
NextFrameResourceIndexShort(i) == (i + 1) % (gNumFrameResources - 1)

\* Update, line 250: the ring is cycled.
NextFrameResourceIndex(i) == (i + 1) % gNumFrameResources

\* Mutant: entries with a counter of 0 are flushed too.
IsDirtyOrClean(n) == n >= 0

\* Mutant: the flush stops one frame resource early.
IsDirtyAboveOne(n) == n > 1

\* Lines 435 and 460: the entry still has frame resources to update.
IsDirty(n) == n > 0

\* Mutant: the comparison also holds the CPU back when the fence has just been reached.
MustWaitWhenReached(fence, done) == fence # 0 /\ done <= fence

\* Update, line 255: the condition under which the CPU has to wait for the slot.
MustWait(fence, done) == fence # 0 /\ done < fence

\* Mutant: the event fires one fence value early.
EventSignaledEarly(fence, done) == done + 1 >= fence

\* The event registered by SetEventOnCompletion(fence, h) is set once the
\* completed value has reached fence; WaitForSingleObject(h, INFINITE) then returns.
EventSignaled(fence, done) == done >= fence

\* Mutant: the fence value is reused instead of advanced.
NextFenceReused(f) == f

\* Mutant: the fence counter is one bit wide and wraps to 0.
NextFenceWraps(f) == (f + 1) % 2

\* Draw, line 331: ++mCurrentFence.
NextFence(f) == f + 1

\* Mutant: the signal is enqueued ahead of the command list.
SubmitFrameSignalFirst(queue, s, v) == queue \o <<Signal(v), ExecuteCommandLists(s)>>

\* Mutant: Draw records the fence value but enqueues no signal for it.
SubmitFrameNoSignal(queue, s, v) == queue \o <<ExecuteCommandLists(s)>>

\* Draw, lines 324 and 336: the command list goes to the queue, then the signal.
SubmitFrame(queue, s, v) == queue \o <<ExecuteCommandLists(s), Signal(v)>>

\* Mutant: an edit during a propagation leaves the running countdown alone.
MarkDirtyOnlyWhenClean(n) == IF n = 0 THEN gNumFrameResources ELSE n

\* Mutant: an edit adds to the counter.
MarkDirtyIncrement(n) == n + 1

\* "when we modify object data we should set NumFramesDirty = gNumFrameResources".
MarkDirty(n) == gNumFrameResources

\* Mutant: the wave simulation is moved ahead of the constant-buffer updates.
UpdateCallsWavesFirst ==
    <<"AnimateMaterials", "UpdateWaves", "UpdateObjectCBs", "UpdateMaterialCBs", "UpdateMainPassCB">>

\* Update, lines 263-267: the calls that follow the acquisition, in order.
UpdateCalls ==
    <<"AnimateMaterials", "UpdateObjectCBs", "UpdateMaterialCBs", "UpdateMainPassCB", "UpdateWaves">>

\* Where the CPU goes when call c of Update returns; Draw follows the last one.
CallAfter(c) ==
    LET k == CHOOSE j \in 1..Len(UpdateCalls) : UpdateCalls[j] = c
    IN  IF k = Len(UpdateCalls) THEN "Draw" ELSE UpdateCalls[k + 1]

\* D3DApp::FlushCommandQueue, first half: advance the fence and enqueue its signal.
FlushCommandQueue ==
    /\ mCurrentFence' = mCurrentFence + 1
    /\ mCommandQueue' = Append(mCommandQueue, Signal(mCurrentFence + 1))

\* D3DApp::FlushCommandQueue, second half: wait until the GPU has reached it.
FlushCompleted == completed >= mCurrentFence

\* --------------------------------------------------------------- Initialize
Initialize ==
    /\ pc = "Initialize"
    /\ mCurrentFence' = mCurrentFence + 1
    /\ mCommandQueue' = mCommandQueue \o <<ExecuteCommandLists(NoSlot), Signal(mCurrentFence + 1)>>
    /\ pc' = "InitializeFlush"
    /\ lastWrites' = {}
    /\ UNCHANGED <<mCurrFrameResourceIndex, mFrameResources, completed, gpu, mCommandList,
                   mAllRitems, mMaterials, mMainPassCB, mProj, mWaves, gt, tick, resizes, tickSteps, acquired, submitted, mRadius, mEyePos, thrown, gpuHung, mWavesRitemVB, mCommandListBinds, wavesCopied, hf, hfElapsed, hfCalls, hfRejected, hfCall, published, flushCount, mSrvDescriptorHeap, eventHandles>>

InitializeFlush ==
    /\ pc = "InitializeFlush"
    /\ FlushCompleted
    /\ pc' = "Idle"
    /\ UNCHANGED <<mCurrFrameResourceIndex, mFrameResources, mCurrentFence, completed,
                   mCommandQueue, gpu, mCommandList, mAllRitems, mMaterials, mMainPassCB,
                   mProj, mWaves, gt, tick, resizes, lastWrites, tickSteps, acquired, submitted, mRadius, mEyePos, thrown, gpuHung, mWavesRitemVB, mCommandListBinds, wavesCopied, hf, hfElapsed, hfCalls, hfRejected, hfCall, published, flushCount, mSrvDescriptorHeap, eventHandles>>

\* ----------------------------------------------------------------- OnResize
AspectRatios == {1, 2}

OnResize ==
    /\ pc = "Idle"
    /\ resizes < MaxResizes
    /\ FlushCommandQueue
    /\ pc' = "OnResizeFlush"
    /\ resizes' = resizes + 1
    /\ lastWrites' = {}
    /\ UNCHANGED <<mCurrFrameResourceIndex, mFrameResources, completed, gpu, mCommandList,
                   mAllRitems, mMaterials, mMainPassCB, mProj, mWaves, gt, tick, tickSteps, acquired, submitted, mRadius, mEyePos, thrown, gpuHung, mWavesRitemVB, mCommandListBinds, wavesCopied, hf, hfElapsed, hfCalls, hfRejected, hfCall, published, flushCount, mSrvDescriptorHeap, eventHandles>>

OnResizeFlush ==
    /\ pc = "OnResizeFlush"
    /\ FlushCompleted
    /\ \E a \in AspectRatios : mProj' = a
    /\ pc' = "Idle"
    /\ UNCHANGED <<mCurrFrameResourceIndex, mFrameResources, mCurrentFence, completed,
                   mCommandQueue, gpu, mCommandList, mAllRitems, mMaterials, mMainPassCB,
                   mWaves, gt, tick, resizes, lastWrites, tickSteps, acquired, submitted, mRadius, mEyePos, thrown, gpuHung, mWavesRitemVB, mCommandListBinds, wavesCopied, hf, hfElapsed, hfCalls, hfRejected, hfCall, published, flushCount, mSrvDescriptorHeap, eventHandles>>

\* ------------------------------------------------------------ mouse input
\* 0.2f * (x - mLastMousePos.x) - 0.2f * (y - mLastMousePos.y) of a drag with
\* the right button held, in scene units.
MouseZooms == {100}

Clamp(x, low, high) == IF x < low THEN low ELSE IF x > high THEN high ELSE x

\* OnMouseMove with MK_RBUTTON, run by the message loop between two frames.
OnMouseMove ==
    /\ pc = "Idle"
    /\ \E d \in MouseZooms : mRadius' = Clamp(mRadius + d, MinRadius, MaxRadius)
    /\ lastWrites' = {}
    /\ UNCHANGED <<pc, mCurrFrameResourceIndex, mFrameResources, mCurrentFence, completed,
                   mCommandQueue, gpu, mCommandList, mAllRitems, mMaterials, mMainPassCB,
                   mProj, mWaves, gt, tick, resizes, tickSteps, acquired, submitted, mEyePos, thrown, gpuHung, mWavesRitemVB, mCommandListBinds, wavesCopied, hf, hfElapsed, hfCalls, hfRejected, hfCall, published, flushCount, mSrvDescriptorHeap, eventHandles>>

\* UpdateCamera: the eye is placed at distance mRadius from the origin (the
\* angles are left at their initial values).
UpdateCamera == mRadius

\* ------------------------------------------------------------------- Update
\* Lines 246-255: cycle to the next frame resource and test its fence.
UpdateAcquire ==
    /\ pc = "Idle"
    /\ tick < MaxTicks
    /\ \E dt \in DeltaTimes :
           gt' = [DeltaTime |-> dt, TotalTime |-> gt.TotalTime + dt]
    /\ mEyePos' = UpdateCamera
    /\ mCurrFrameResourceIndex' = NextFrameResourceIndex(mCurrFrameResourceIndex)
    /\ pc' = IF MustWait(mFrameResources[CurrSlot'].Fence, completed)
                THEN "SetEventOnCompletion"
                ELSE UpdateCalls[1]
    /\ tick' = tick + 1
    /\ lastWrites' = {}
    /\ acquired' = Append(acquired, mCurrFrameResourceIndex')
    /\ tickSteps' = IF pc' = "SetEventOnCompletion" THEN << >> ELSE <<"Acquire">>
    /\ UNCHANGED <<mFrameResources, mCurrentFence, completed, mCommandQueue, gpu,
                   mCommandList, mAllRitems, mMaterials, mMainPassCB, mProj, mWaves, resizes,
                   submitted, mRadius, thrown, gpuHung, mWavesRitemVB, mCommandListBinds, wavesCopied, hf, hfElapsed, hfCalls, hfRejected, hfCall, published, flushCount, mSrvDescriptorHeap, eventHandles>>

\* Lines 257-258: the event is created and registered, or the HRESULT fails and
\* ThrowIfFailed throws out of Update with the event handle still open.
SetEventOnCompletion ==
    /\ pc = "SetEventOnCompletion"
    /\ \E ok \in BOOLEAN :
          /\ pc' = IF ok THEN "WaitForSingleObject" ELSE "DxException"
          /\ thrown' = ~ok
    /\ eventHandles' = eventHandles + 1
    /\ UNCHANGED <<mCurrFrameResourceIndex, mFrameResources, mCurrentFence, completed,
                   mCommandQueue, gpu, mCommandList, mAllRitems, mMaterials, mMainPassCB,
                   mProj, mWaves, gt, tick, resizes, lastWrites, tickSteps, acquired, submitted,
                   mRadius, mEyePos, gpuHung, mWavesRitemVB, mCommandListBinds, wavesCopied, hf, hfElapsed, hfCalls, hfRejected, hfCall, published, flushCount, mSrvDescriptorHeap>>

\* Lines 259-260: the wait returns once the fence has reached the slot's value,
\* and the event handle is closed.
WaitForSingleObject ==
    /\ pc = "WaitForSingleObject"
    /\ EventSignaled(mCurrFrameResource.Fence, completed)
    /\ pc' = UpdateCalls[1]
    /\ tickSteps' = <<"Acquire">>
    /\ eventHandles' = eventHandles - 1
    /\ UNCHANGED <<mCurrFrameResourceIndex, mFrameResources, mCurrentFence, completed,
                   mCommandQueue, gpu, mCommandList, mAllRitems, mMaterials, mMainPassCB,
                   mProj, mWaves, gt, tick, resizes, lastWrites, acquired, submitted, mRadius, mEyePos, thrown, gpuHung, mWavesRitemVB, mCommandListBinds, wavesCopied, hf, hfElapsed, hfCalls, hfRejected, hfCall, published, flushCount, mSrvDescriptorHeap>>

\* Lines 415-419: one subtraction when the coordinate has reached 1.0f.
Wrap(x) == IF x >= One THEN x - One ELSE x

AnimateMaterials ==
    /\ pc = "AnimateMaterials"
    /\ LET waterMat == mMaterials[WaterMatCBIndex]
           tu == Wrap(waterMat.MatTransform[4][1] + TuRate * gt.DeltaTime)
           tv == Wrap(waterMat.MatTransform[4][2] + TvRate * gt.DeltaTime)
           row == waterMat.MatTransform[4]
       IN  mMaterials' = [mMaterials EXCEPT ![WaterMatCBIndex] =
               [waterMat EXCEPT
                   !.MatTransform = [waterMat.MatTransform EXCEPT ![4] = <<tu, tv, row[3], row[4]>>],
                   !.NumFramesDirty = MarkDirty(waterMat.NumFramesDirty)]]
    /\ pc' = CallAfter("AnimateMaterials")
    /\ lastWrites' = {}
    /\ UNCHANGED <<mCurrFrameResourceIndex, mFrameResources, mCurrentFence, completed,
                   mCommandQueue, gpu, mCommandList, mAllRitems, mMainPassCB, mProj,
                   mWaves, gt, tick, resizes, tickSteps, acquired, submitted, mRadius, mEyePos, thrown, gpuHung, mWavesRitemVB, mCommandListBinds, wavesCopied, hf, hfElapsed, hfCalls, hfRejected, hfCall, published, flushCount, mSrvDescriptorHeap, eventHandles>>


\* The number of writes each element of each slot's constant buffers has had,
\* after the elements in writes were written once more.
CountFlush(cnt, writes) ==
    [k \in DOMAIN cnt |-> IF k \in writes THEN cnt[k] + 1 ELSE cnt[k]]

\* Lines 437-442.
ObjectConstantsOf(e) ==
    [World        |-> XMMatrixTranspose(e.World),
     TexTransform |-> XMMatrixTranspose(e.TexTransform)]

\* Lines 431-449 for the items at positions i..n of mAllRitems, in order.
RECURSIVE FlushRitems(_, _, _, _)
FlushRitems(cb, items, i, n) ==
    IF i > n THEN [cb |-> cb, items |-> items]
    ELSE IF IsDirty(items[i].NumFramesDirty)
         THEN FlushRitems(CopyData(cb, items[i].ObjCBIndex, ObjectConstantsOf(items[i])),
                          [items EXCEPT ![i].NumFramesDirty = @ - 1], i + 1, n)
         ELSE FlushRitems(cb, items, i + 1, n)

\* Dirty items whose ObjCBIndex lies past the end of the slot's buffer.
OutOfRangeRitems ==
    {i \in Ritems : IsDirty(mAllRitems[i].NumFramesDirty) /\ mAllRitems[i].ObjCBIndex >= ObjectCBCount}

ObjectCBWrites(n) ==
    {<<CurrSlot, "ObjectCB", mAllRitems[i].ObjCBIndex>> :
        i \in {j \in 1..n : IsDirty(mAllRitems[j].NumFramesDirty)}}

\* The loop runs to its end; a CopyData past the buffer's end lands in the
\* memory that follows the buffer in the mapped heap.
UpdateObjectCBs ==
    /\ pc = "UpdateObjectCBs"
    /\ LET r == FlushRitems(mCurrFrameResource.ObjectCB, mAllRitems, 1, NumRitems)
       IN  /\ mFrameResources' = [mFrameResources EXCEPT ![CurrSlot].ObjectCB = r.cb]
           /\ mAllRitems' = r.items
    /\ lastWrites' = ObjectCBWrites(NumRitems)
    /\ flushCount' = CountFlush(flushCount, lastWrites')
    /\ pc' = CallAfter("UpdateObjectCBs")
    /\ tickSteps' = Append(tickSteps, "FlushObjects")
    /\ UNCHANGED <<mCurrFrameResourceIndex, mCurrentFence, completed, mCommandQueue, gpu,
                   mCommandList, mMaterials, mMainPassCB, mProj, mWaves, gt, tick, resizes,
                   acquired, submitted, mRadius, mEyePos, thrown, gpuHung, mWavesRitemVB, mCommandListBinds, wavesCopied, hf, hfElapsed, hfCalls, hfRejected, hfCall, published, mSrvDescriptorHeap, eventHandles>>

\* The other outcome of a CopyData past the buffer's end: the write faults and
\* the process ends inside the loop, the items before it already flushed.
UpdateObjectCBsFault ==
    /\ pc = "UpdateObjectCBs"
    /\ OutOfRangeRitems # {}
    /\ LET f == CHOOSE i \in OutOfRangeRitems : \A j \in OutOfRangeRitems : i <= j
           r == FlushRitems(mCurrFrameResource.ObjectCB, mAllRitems, 1, f - 1)
       IN  /\ mFrameResources' = [mFrameResources EXCEPT ![CurrSlot].ObjectCB = r.cb]
           /\ mAllRitems' = r.items
           /\ lastWrites' = ObjectCBWrites(f - 1)
    /\ flushCount' = CountFlush(flushCount, lastWrites')
    /\ pc' = "AccessViolation"
    /\ UNCHANGED <<mCurrFrameResourceIndex, mCurrentFence, completed, mCommandQueue, gpu,
                   mCommandList, mMaterials, mMainPassCB, mProj, mWaves, gt, tick, resizes, tickSteps, acquired, submitted, mRadius, mEyePos, thrown, gpuHung, mWavesRitemVB, mCommandListBinds, wavesCopied, hf, hfElapsed, hfCalls, hfRejected, hfCall, published, mSrvDescriptorHeap, eventHandles>>

\* Lines 462-468.
MaterialConstantsOf(mat) ==
    [DiffuseAlbedo |-> mat.DiffuseAlbedo,
     Roughness     |-> mat.Roughness,
     MatTransform  |-> XMMatrixTranspose(mat.MatTransform)]

\* Lines 455-475 for the materials m..last.
RECURSIVE FlushMaterials(_, _, _, _)
FlushMaterials(cb, mats, m, last) ==
    IF m > last THEN [cb |-> cb, mats |-> mats]
    ELSE IF IsDirty(mats[m].NumFramesDirty)
         THEN FlushMaterials(CopyData(cb, mats[m].MatCBIndex, MaterialConstantsOf(mats[m])),
                             [mats EXCEPT ![m].NumFramesDirty = @ - 1], m + 1, last)
         ELSE FlushMaterials(cb, mats, m + 1, last)

UpdateMaterialCBs ==
    /\ pc = "UpdateMaterialCBs"
    /\ LET r == FlushMaterials(mCurrFrameResource.MaterialCB, mMaterials, 0, NumMaterials - 1)
       IN  /\ mFrameResources' = [mFrameResources EXCEPT ![CurrSlot].MaterialCB = r.cb]
           /\ mMaterials' = r.mats
    /\ lastWrites' = {<<CurrSlot, "MaterialCB", mMaterials[m].MatCBIndex>> :
                         m \in {k \in Mats : IsDirty(mMaterials[k].NumFramesDirty)}}
    /\ flushCount' = CountFlush(flushCount, lastWrites')
    /\ pc' = CallAfter("UpdateMaterialCBs")
    /\ tickSteps' = Append(tickSteps, "FlushMaterials")
    /\ UNCHANGED <<mCurrFrameResourceIndex, mCurrentFence, completed, mCommandQueue, gpu,
                   mCommandList, mAllRitems, mMainPassCB, mProj, mWaves, gt, tick, resizes,
                   acquired, submitted, mRadius, mEyePos, thrown, gpuHung, mWavesRitemVB, mCommandListBinds, wavesCopied, hf, hfElapsed, hfCalls, hfRejected, hfCall, published, mSrvDescriptorHeap, eventHandles>>

UpdateMainPassCB ==
    /\ pc = "UpdateMainPassCB"
    /\ mMainPassCB' = [Proj |-> mProj, EyePosW |-> mEyePos, TotalTime |-> gt.TotalTime,
                        DeltaTime |-> gt.DeltaTime]
    /\ mFrameResources' = [mFrameResources EXCEPT ![CurrSlot].PassCB = mMainPassCB']
    /\ lastWrites' = {<<CurrSlot, "PassCB", 0>>}
    /\ pc' = CallAfter("UpdateMainPassCB")
    /\ UNCHANGED <<mCurrFrameResourceIndex, mCurrentFence, completed, mCommandQueue, gpu,
                   mCommandList, mAllRitems, mMaterials, mProj, mWaves, gt, tick, resizes, tickSteps, acquired, submitted, mRadius, mEyePos, thrown, gpuHung, mWavesRitemVB, mCommandListBinds, wavesCopied, hf, hfElapsed, hfCalls, hfRejected, hfCall, published, flushCount, mSrvDescriptorHeap, eventHandles>>

\* Mutant: at most one simulation step per call, and the accumulator restarts.
WavesUpdateOneStep(w, dt) ==
    IF w.t + dt >= WavesTimeStep
    THEN [WavesStep(w) EXCEPT !.t = 0]
    ELSE [w EXCEPT !.t = w.t + dt]

\* Waves::Update(dt): the accumulator takes dt and gives up one time step per
\* simulation step.
WavesUpdate(w, dt) ==
    [WavesAdvance(w, (w.t + dt) \div WavesTimeStep) EXCEPT !.t = (w.t + dt) % WavesTimeStep]

\* Lines 532-540: the vertex of sample v.
WavesVertex(w, v) ==
    LET Pos == WavesPosition(w, v)
    IN  [Pos    |-> Pos,
         Normal |-> WavesNormal(w, v),
         TexC   |-> <<One \div 2 + (Pos[1] * One) \div WavesWidth,
                      One \div 2 - (Pos[3] * One) \div WavesDepth>>]

\* Mutant: the loop stops one sample short.
WavesCopyEndShort == VertexCount - 1

\* Line 530: the loop runs while i < mWaves->VertexCount().
WavesCopyEnd == VertexCount

\* Lines 530-543 from sample i on: vb is the buffer, log the elements written.
RECURSIVE CopyWaves(_, _, _, _)
CopyWaves(vb, log, w, i) ==
    IF i < WavesCopyEnd
    THEN CopyWaves(CopyData(vb, i, WavesVertex(w, i)), Append(log, i), w, i + 1)
    ELSE [vb |-> vb, log |-> log]

\* Mutant: the wave render item keeps the vertex buffer of the first slot.
SetWavesVBFirstSlot(s) == 0

\* Line 546: the wave render item is pointed at the current slot's vertex buffer.
SetWavesVB(s) == s

UpdateWaves ==
    /\ pc = "UpdateWaves"
    /\ mWaves' = WavesUpdate(mWaves, gt.DeltaTime)
    /\ LET r == CopyWaves(mCurrFrameResource.WavesVB, << >>, mWaves', 0)
       IN  /\ mFrameResources' = [mFrameResources EXCEPT ![CurrSlot].WavesVB = r.vb]
           /\ wavesCopied' = r.log
           /\ lastWrites' = {<<CurrSlot, "WavesVB", r.log[k]>> : k \in 1..Len(r.log)}
    /\ mWavesRitemVB' = SetWavesVB(CurrSlot)
    /\ pc' = CallAfter("UpdateWaves")
    /\ tickSteps' = tickSteps \o <<"Step", "Copy">>
    /\ UNCHANGED <<mCurrFrameResourceIndex, mCurrentFence, completed, mCommandQueue, gpu,
                   mCommandList, mAllRitems, mMaterials, mMainPassCB, mProj, gt, tick, resizes,
                   acquired, submitted, mRadius, mEyePos, thrown, gpuHung,
                   mCommandListBinds, hf, hfElapsed, hfCalls, hfRejected, hfCall, published, flushCount, mSrvDescriptorHeap, eventHandles>>

\* --------------------------------------------------------------------- Draw
\* Lines 272-276: reset the slot's command allocator.
Draw ==
    /\ pc = "Draw"
    /\ mFrameResources' = [mFrameResources EXCEPT ![CurrSlot].CmdListAlloc = "reset"]
    /\ lastWrites' = {<<CurrSlot, "CmdListAlloc", 0>>}
    /\ pc' = "DrawRecord"
    /\ UNCHANGED <<mCurrFrameResourceIndex, mCurrentFence, completed, mCommandQueue, gpu,
                   mCommandList, mAllRitems, mMaterials, mMainPassCB, mProj, mWaves, gt,
                   tick, resizes, tickSteps, acquired, submitted, mRadius, mEyePos, thrown, gpuHung, mWavesRitemVB, mCommandListBinds, wavesCopied, hf, hfElapsed, hfCalls, hfRejected, hfCall, published, flushCount, mSrvDescriptorHeap, eventHandles>>

\* Lines 280-320: record the frame's commands, which bind the current slot's
\* pass, object and material constants and wave vertex buffer.
DrawRecord ==
    /\ pc = "DrawRecord"
    /\ mCommandList' = CurrSlot
    /\ mCommandListBinds' = [CmdListAlloc |-> CurrSlot,
                             PassCB       |-> CurrSlot,
                             ObjectCB     |-> CurrSlot,
                             MaterialCB   |-> CurrSlot,
                             WavesVB      |-> mWavesRitemVB]
    /\ mFrameResources' = [mFrameResources EXCEPT ![CurrSlot].CmdListAlloc = "recorded"]
    /\ lastWrites' = {<<CurrSlot, "CmdListAlloc", 0>>}
    /\ pc' = "DrawSubmit"
    /\ tickSteps' = Append(tickSteps, "Record")
    /\ UNCHANGED <<mCurrFrameResourceIndex, mCurrentFence, completed, mCommandQueue, gpu,
                   mAllRitems, mMaterials, mMainPassCB, mProj, mWaves, gt, tick, resizes,
                   acquired, submitted, mRadius, mEyePos, thrown, gpuHung,
                   mWavesRitemVB, wavesCopied, hf, hfElapsed, hfCalls, hfRejected, hfCall, published, flushCount, mSrvDescriptorHeap, eventHandles>>

\* Mutant: Draw ends like D3DApp::FlushCommandQueue and waits for its own signal.
DrawReturnsWhenFlushed(fence, done) == done >= fence

\* Lines 336-337: Draw returns as soon as the signal is enqueued, whatever the
\* completed value.
DrawReturns(fence, done) == TRUE

\* Lines 323-336: submit the list, present, record the new fence value on the
\* slot and enqueue its signal.
DrawSubmit ==
    /\ pc = "DrawSubmit"
    /\ DrawReturns(NextFence(mCurrentFence), completed)
    /\ mCurrentFence' = NextFence(mCurrentFence)
    /\ mFrameResources' = [mFrameResources EXCEPT ![CurrSlot].Fence = mCurrentFence']
    /\ mCommandQueue' = SubmitFrame(mCommandQueue, mCommandList, mCurrentFence')
    /\ lastWrites' = {}
    /\ pc' = "Idle"
    /\ tickSteps' = Append(tickSteps, "Publish")
    /\ submitted' = submitted \cup {mCommandList}
    /\ published' = published \cup {mCurrentFence'}
    /\ UNCHANGED <<mCurrFrameResourceIndex, completed, gpu, mCommandList, mAllRitems,
                   mMaterials, mMainPassCB, mProj, mWaves, gt, tick, resizes, acquired, mRadius, mEyePos, thrown, gpuHung, mWavesRitemVB, mCommandListBinds, wavesCopied, hf, hfElapsed, hfCalls, hfRejected, hfCall, flushCount, mSrvDescriptorHeap, eventHandles>>

\* ---------------------------------------------------------------------- GPU
\* The queue is served in submission order, one command at a time.
GpuBegin ==
    /\ ~gpuHung
    /\ ~gpu.busy
    /\ mCommandQueue # << >>
    /\ Head(mCommandQueue).op = "ExecuteCommandLists"
    /\ gpu' = [busy |-> TRUE, slot |-> Head(mCommandQueue).slot]
    /\ mCommandQueue' = Tail(mCommandQueue)
    /\ UNCHANGED <<pc, mCurrFrameResourceIndex, mFrameResources, mCurrentFence, completed,
                   mCommandList, mAllRitems, mMaterials, mMainPassCB, mProj, mWaves, gt,
                   tick, resizes, lastWrites, tickSteps, acquired, submitted, mRadius, mEyePos, thrown, gpuHung, mWavesRitemVB, mCommandListBinds, wavesCopied, hf, hfElapsed, hfCalls, hfRejected, hfCall, published, flushCount, mSrvDescriptorHeap, eventHandles>>

GpuEnd ==
    /\ ~gpuHung
    /\ gpu.busy
    /\ gpu' = GpuIdle
    /\ UNCHANGED <<pc, mCurrFrameResourceIndex, mFrameResources, mCurrentFence, completed,
                   mCommandQueue, mCommandList, mAllRitems, mMaterials, mMainPassCB, mProj,
                   mWaves, gt, tick, resizes, lastWrites, tickSteps, acquired, submitted, mRadius, mEyePos, thrown, gpuHung, mWavesRitemVB, mCommandListBinds, wavesCopied, hf, hfElapsed, hfCalls, hfRejected, hfCall, published, flushCount, mSrvDescriptorHeap, eventHandles>>

GpuSignal ==
    /\ ~gpuHung
    /\ ~gpu.busy
    /\ mCommandQueue # << >>
    /\ Head(mCommandQueue).op = "Signal"
    /\ completed' = Head(mCommandQueue).value
    /\ mCommandQueue' = Tail(mCommandQueue)
    /\ UNCHANGED <<pc, mCurrFrameResourceIndex, mFrameResources, mCurrentFence, gpu,
                   mCommandList, mAllRitems, mMaterials, mMainPassCB, mProj, mWaves, gt,
                   tick, resizes, lastWrites, tickSteps, acquired, submitted, mRadius, mEyePos, thrown, gpuHung, mWavesRitemVB, mCommandListBinds, wavesCopied, hf, hfElapsed, hfCalls, hfRejected, hfCall, published, flushCount, mSrvDescriptorHeap, eventHandles>>

\* ----------------------------------------------------------------- shutdown
\* WM_QUIT ends D3DApp::Run between two frames; WinMain leaves the try block.
Quit ==
    /\ pc = "Idle"
    /\ pc' = "Quit"
    /\ lastWrites' = {}
    /\ UNCHANGED <<mCurrFrameResourceIndex, mFrameResources, mCurrentFence, completed,
                   mCommandQueue, gpu, mCommandList, mAllRitems, mMaterials, mMainPassCB,
                   mProj, mWaves, gt, tick, resizes, tickSteps, acquired, submitted,
                   mRadius, mEyePos, thrown, gpuHung, mWavesRitemVB, mCommandListBinds, wavesCopied, hf, hfElapsed, hfCalls, hfRejected, hfCall, published, flushCount, mSrvDescriptorHeap, eventHandles>>

\* Mutant: the destructor releases without waiting for the GPU.
DestructorReleasesAtOnce == TRUE

\* ~TreeBillboardsApp, line 188: the wait inside FlushCommandQueue.
DestructorDrained == FlushCompleted

\* ~TreeBillboardsApp, when theApp leaves scope on return or while a
\* DxException unwinds: md3dDevice is set, so FlushCommandQueue is called.
Destructor ==
    /\ pc \in {"Quit", "DxException"}
    /\ FlushCommandQueue
    /\ pc' = "~TreeBillboardsApp"
    /\ lastWrites' = {}
    /\ UNCHANGED <<mCurrFrameResourceIndex, mFrameResources, completed, gpu, mCommandList,
                   mAllRitems, mMaterials, mMainPassCB, mProj, mWaves, gt, tick, resizes,
                   tickSteps, acquired, submitted, mRadius, mEyePos, thrown, gpuHung, mWavesRitemVB, mCommandListBinds, wavesCopied, hf, hfElapsed, hfCalls, hfRejected, hfCall, published, flushCount, mSrvDescriptorHeap, eventHandles>>

\* The flush has returned: the members, the frame resources among them, are
\* released, and WinMain returns (after the "HR Failed" box when thrown).
DestructorRelease ==
    /\ pc = "~TreeBillboardsApp"
    /\ DestructorDrained
    /\ pc' = "Released"
    /\ UNCHANGED <<mCurrFrameResourceIndex, mFrameResources, mCurrentFence, completed,
                   mCommandQueue, gpu, mCommandList, mAllRitems, mMaterials, mMainPassCB,
                   mProj, mWaves, gt, tick, resizes, lastWrites, tickSteps, acquired,
                   submitted, mRadius, mEyePos, thrown, gpuHung, mWavesRitemVB, mCommandListBinds, wavesCopied, hf, hfElapsed, hfCalls, hfRejected, hfCall, published, flushCount, mSrvDescriptorHeap, eventHandles>>

Next ==
    \/ Initialize
    \/ InitializeFlush
    \/ OnResize
    \/ OnResizeFlush
    \/ UpdateAcquire
    \/ SetEventOnCompletion
    \/ WaitForSingleObject
    \/ AnimateMaterials
    \/ UpdateObjectCBs
    \/ UpdateObjectCBsFault
    \/ UpdateMaterialCBs
    \/ UpdateMainPassCB
    \/ UpdateWaves
    \/ Draw
    \/ DrawRecord
    \/ DrawSubmit
    \/ Quit
    \/ Destructor
    \/ DestructorRelease
    \/ GpuBegin
    \/ GpuEnd
    \/ GpuSignal

Spec == Init /\ [][Next]_vars

\* The steps of Update after the slot has been cycled to.
UpdateSteps ==
    \/ SetEventOnCompletion
    \/ WaitForSingleObject
    \/ AnimateMaterials
    \/ UpdateObjectCBs
    \/ UpdateObjectCBsFault
    \/ UpdateMaterialCBs
    \/ UpdateMainPassCB
    \/ UpdateWaves

\* The GPU works off whatever is queued, and the CPU thread, once inside
\* Update, runs whenever it is not waiting.
SpecLive ==
    /\ Spec
    /\ WF_vars(GpuBegin)
    /\ WF_vars(GpuEnd)
    /\ WF_vars(GpuSignal)
    /\ WF_vars(UpdateSteps)

\* The frame loop with the mouse handler in the message loop.
NextInput ==
    \/ Next
    \/ OnMouseMove

SpecInput == Init /\ [][NextInput]_vars

\* A GPU fault: the GPU stops for good and the completed value stays where it is.
GpuHang ==
    /\ ~gpuHung
    /\ gpuHung' = TRUE
    /\ UNCHANGED <<pc, mCurrFrameResourceIndex, mFrameResources, mCurrentFence, completed,
                   mCommandQueue, gpu, mCommandList, mAllRitems, mMaterials, mMainPassCB,
                   mProj, mWaves, gt, tick, resizes, lastWrites, tickSteps, acquired,
                   submitted, mRadius, mEyePos, thrown, mWavesRitemVB, mCommandListBinds, wavesCopied, hf, hfElapsed, hfCalls, hfRejected, hfCall, published, flushCount, mSrvDescriptorHeap, eventHandles>>

\* The frame loop on a GPU that may fail.
NextDeviceLost ==
    \/ Next
    \/ GpuHang

SpecDeviceLost == Init /\ [][NextDeviceLost]_vars

\* ------------------------------------------------ the height field by itself
\* Mutant: any cell of the grid is accepted.
DisturbAcceptsInGrid(w, i, j) ==
    /\ i >= 0 /\ i <= w.rows - 1
    /\ j >= 0 /\ j <= w.cols - 1

\* Mutant: any interior cell is accepted, also one next to the boundary.
DisturbAcceptsInterior(w, i, j) == InteriorCell(w, i, j)

\* Waves::Disturb accepts (i, j) when the cell and the neighbours it raises
\* are all interior.
DisturbAccepts(w, i, j) ==
    /\ i > 1 /\ i < w.rows - 2
    /\ j > 1 /\ j < w.cols - 2

\* What a disturbance of magnitude m at (i, j) adds to cell (r, c): m at the
\* centre, half of it at the four orthogonal neighbours.
DisturbBump(i, j, m, r, c) ==
    IF r = i /\ c = j THEN m
    ELSE IF (r = i /\ (c = j + 1 \/ c = j - 1)) \/ (c = j /\ (r = i + 1 \/ r = i - 1))
         THEN m \div 2
         ELSE 0

\* Waves::Disturb(i, j, magnitude): the current layer is raised around (i, j);
\* a rejected call changes nothing.
Disturb(w, i, j, m) ==
    IF DisturbAccepts(w, i, j)
    THEN [w EXCEPT !.Curr = [v \in DOMAIN w.Curr |->
                               w.Curr[v] + DisturbBump(i, j, m, v \div w.cols, v % w.cols)]]
    ELSE w

programVars == <<pc, mCurrFrameResourceIndex, mFrameResources, mCurrentFence, completed,
                 mCommandQueue, gpu, mCommandList, mAllRitems, mMaterials, mMainPassCB,
                 mProj, mWaves, gt, tick, resizes, lastWrites, tickSteps, acquired,
                 submitted, mRadius, mEyePos, thrown, gpuHung, mWavesRitemVB,
                 mCommandListBinds, wavesCopied, published, flushCount, mSrvDescriptorHeap,
                 eventHandles>>

\* One call of Update on the height field.
HfUpdate ==
    /\ hfCalls < MaxHfCalls
    /\ \E dt \in StepDeltas :
          /\ hf' = WavesUpdate(hf, dt)
          /\ hfElapsed' = hfElapsed + dt
          /\ hfCall' = <<"Update", dt>>
    /\ hfCalls' = hfCalls + 1
    /\ hfRejected' = FALSE
    /\ UNCHANGED programVars

\* One call of Disturb on the height field.
HfDisturb ==
    /\ hfCalls < MaxHfCalls
    /\ \E i \in DisturbCoords, j \in DisturbCoords, m \in Magnitudes :
          /\ hf' = Disturb(hf, i, j, m)
          /\ hfRejected' = ~DisturbAccepts(hf, i, j)
          /\ hfCall' = <<"Disturb", i, j, m>>
    /\ hfCalls' = hfCalls + 1
    /\ UNCHANGED <<programVars, hfElapsed, published, flushCount, mSrvDescriptorHeap, eventHandles>>

NextWaves ==
    \/ HfUpdate
    \/ HfDisturb

SpecWaves == Init /\ [][NextWaves]_vars


\* =================================================================== claims
Fence(s) == mFrameResources[s].Fence

\* Command lists bound to slot s that the GPU has not finished executing.
InFlight(s) ==
    \/ gpu.busy /\ gpu.slot = s
    \/ \E k \in 1..Len(mCommandQueue) :
          mCommandQueue[k].op = "ExecuteCommandLists" /\ mCommandQueue[k].slot = s

\* C1. Slot exclusivity: every buffer the CPU has just written (constants and
\* wave vertices in Update, the command allocator in Draw) belongs to a slot
\* that was never submitted or whose published fence value the GPU has reached.
C1_SlotExclusivity ==
    \A w \in lastWrites : Fence(w[1]) = 0 \/ completed >= Fence(w[1])

\* Draw resets the command allocator of a slot that has been submitted before.
C1_Witness ==
    /\ \E w \in lastWrites : Fence(w[1]) # 0 /\ w[2] = "CmdListAlloc"
    /\ tick > gNumFrameResources

\* The same in Update: a constant buffer of a resubmitted slot is rewritten.
C1_WitnessUpdate ==
    \E w \in lastWrites : Fence(w[1]) # 0 /\ w[2] = "MaterialCB"

\* C2. The acquisition in Update takes the waiting branch exactly when the
\* acquired slot's Fence is non-zero and the completed value is below it;
\* otherwise it goes straight on to the updates; and the waiting branch is left
\* for the updates only when the completed value has reached that Fence.
C2_AcquireBlocksIff ==
    [][ /\ (pc = "Idle" /\ tick' = tick + 1) =>
              LET f == Fence(mCurrFrameResourceIndex')
              IN  /\ (f # 0 /\ completed < f)    => pc' = "SetEventOnCompletion"
                  /\ (~(f # 0 /\ completed < f)) => pc' = "AnimateMaterials"
        /\ (pc \in {"SetEventOnCompletion", "WaitForSingleObject"} /\ pc' = "AnimateMaterials") =>
              completed >= Fence(mCurrFrameResourceIndex)
      ]_vars

\* The CPU is blocked on a slot whose fence value the GPU has not reached.
C2_Witness ==
    /\ pc = "WaitForSingleObject"
    /\ completed < Fence(mCurrFrameResourceIndex)

\* The non-zero fence values of the slots are pairwise distinct and none
\* exceeds mCurrentFence.
C3_FenceBounded ==
    /\ \A s \in Slots : Fence(s) <= mCurrentFence
    /\ \A s, t \in Slots : (s # t /\ Fence(s) # 0) => Fence(s) # Fence(t)

\* C3. Fence values recorded by Draw are strictly increasing: each is recorded
\* on the current slot and is greater than every value issued before, so the
\* non-zero values held by the slots are pairwise distinct, and none exceeds
\* mCurrentFence.
C3_FenceStrictlyIncreasing ==
    [][ /\ C3_FenceBounded
        /\ C3_FenceBounded'
        /\ \A s \in Slots :
              Fence(s)' # Fence(s) =>
                  /\ s = mCurrFrameResourceIndex
                  /\ Fence(s)' > mCurrentFence
                  /\ \A t \in Slots : Fence(s)' > Fence(t)
      ]_vars

\* Every slot has been submitted and one of them for the second time.
C3_Witness ==
    /\ \A s \in Slots : Fence(s) # 0
    /\ \E s, t \in Slots : Fence(s) > Fence(t) + gNumFrameResources - 1

\* C4. A slot's own fence value is the right one to wait for: when the slot was
\* never submitted or the completed value has reached its Fence, no command
\* list bound to the slot's buffers is queued or executing.
C4_OwnTargetSuffices ==
    \A s \in Slots : (Fence(s) = 0 \/ completed >= Fence(s)) => ~InFlight(s)

\* One submitted slot is finished while a later one is still in flight.
C4_Witness ==
    \E s, t \in Slots :
        /\ Fence(s) # 0 /\ completed >= Fence(s)
        /\ Fence(t) > Fence(s) /\ InFlight(t)


\* ------------------------------------------------- replicated constants
IsTransposeOf(A, B) == \A r, c \in 1..4 : A[r][c] = B[c][r]

\* Slot s holds, at the item's element, the constants derived from the item.
ObjectCopyFresh(s, i) ==
    LET e == mAllRitems[i]
        c == mFrameResources[s].ObjectCB[e.ObjCBIndex]
    IN  /\ c # Uninit
        /\ IsTransposeOf(c.World, e.World)
        /\ IsTransposeOf(c.TexTransform, e.TexTransform)

\* Slot s holds, at the material's element, the constants derived from it.
MaterialCopyFresh(s, m) ==
    LET mat == mMaterials[m]
        c == mFrameResources[s].MaterialCB[mat.MatCBIndex]
    IN  /\ c # Uninit
        /\ c.DiffuseAlbedo = mat.DiffuseAlbedo
        /\ c.Roughness = mat.Roughness
        /\ IsTransposeOf(c.MatTransform, mat.MatTransform)

\* Calls of UpdateObjectCBs / UpdateMaterialCBs that have run to their end.
BeforeFlush == {"SetEventOnCompletion", "WaitForSingleObject", "DxException",
                "AnimateMaterials", "UpdateObjectCBs"}
ObjectFlushes == IF pc \in BeforeFlush \/ thrown THEN tick - 1 ELSE tick
MaterialFlushes ==
    IF pc \in BeforeFlush \cup {"AccessViolation", "UpdateMaterialCBs"} \/ thrown
    THEN tick - 1 ELSE tick

ObjectFlushStep == pc = "UpdateObjectCBs" /\ pc' = "UpdateMaterialCBs"
MaterialFlushStep == pc = "UpdateMaterialCBs" /\ pc' = "UpdateMainPassCB"

UpcomingSlots(n) ==
    IF pc \in BeforeFlush \cup {"AccessViolation", "UpdateMaterialCBs"} \/ thrown
    THEN {(mCurrFrameResourceIndex + k) % gNumFrameResources : k \in 0..(n - 1)}
    ELSE {(mCurrFrameResourceIndex + k) % gNumFrameResources : k \in 1..n}

StaleWaterSlots == {s \in Slots : ~MaterialCopyFresh(s, WaterMatCBIndex)}

\* C6. Re-dirty restarts the window: an edit of the water material made after
\* 1 of its N flushes (counter N-1) puts the counter back to N, so that every
\* slot whose copy is not the edited value, the slot flushed before the edit
\* included, is among the slots the next counter flushes write; and the flush
\* of the tick writes the edited value into the current slot.
C6_RedirtyRestartsWindow ==
    [][ /\ (pc = "AnimateMaterials" /\ pc' = "UpdateObjectCBs"
              /\ mMaterials[WaterMatCBIndex].NumFramesDirty = gNumFrameResources - 1) =>
                  mMaterials'[WaterMatCBIndex].NumFramesDirty = gNumFrameResources
        /\ MaterialFlushStep => MaterialCopyFresh(mCurrFrameResourceIndex, WaterMatCBIndex)'
        /\ (StaleWaterSlots \subseteq UpcomingSlots(mMaterials[WaterMatCBIndex].NumFramesDirty))'
      ]_vars

\* The second edit has just been made: the counter is back at N and the slot
\* flushed before the edit holds the first value.
C6_Witness ==
    /\ pc = "UpdateObjectCBs"
    /\ tick = 2
    /\ mMaterials[WaterMatCBIndex].NumFramesDirty = gNumFrameResources
    /\ mFrameResources[1].MaterialCB[WaterMatCBIndex] # Uninit
    /\ ~MaterialCopyFresh(1, WaterMatCBIndex)

\* C7. MarkDirty sets the counter to exactly N: entries are built with N, and
\* the edit in AnimateMaterials leaves the water material's counter at N
\* whatever it was, touching no other counter.
C7_MarkDirtySetsN ==
    [][ /\ tick = 0 =>
              /\ \A i \in Ritems : mAllRitems[i].NumFramesDirty = gNumFrameResources
              /\ \A m \in Mats : mMaterials[m].NumFramesDirty = gNumFrameResources
        /\ (pc = "AnimateMaterials" /\ pc' # pc) =>
              /\ mMaterials'[WaterMatCBIndex].NumFramesDirty = gNumFrameResources
              /\ \A m \in Mats \ {WaterMatCBIndex} :
                    mMaterials'[m].NumFramesDirty = mMaterials[m].NumFramesDirty
              /\ mAllRitems' = mAllRitems
      ]_vars

\* The water material has just been marked while its counter was N-1.
C7_Witness ==
    /\ pc = "UpdateObjectCBs"
    /\ tick >= 2
    /\ mMaterials[WaterMatCBIndex].NumFramesDirty = gNumFrameResources

C9_FlushFrame ==
    [][ (pc \in {"UpdateObjectCBs", "UpdateMaterialCBs"} /\ pc' # pc) =>
          /\ \A i \in Ritems :
                /\ mAllRitems'[i].World = mAllRitems[i].World
                /\ mAllRitems'[i].TexTransform = mAllRitems[i].TexTransform
                /\ mAllRitems[i].NumFramesDirty = 0 =>
                      /\ mAllRitems'[i].NumFramesDirty = 0
                      /\ \A s \in Slots :
                            mFrameResources'[s].ObjectCB[mAllRitems[i].ObjCBIndex]
                                = mFrameResources[s].ObjectCB[mAllRitems[i].ObjCBIndex]
          /\ \A m \in Mats :
                /\ mMaterials'[m].MatTransform = mMaterials[m].MatTransform
                /\ mMaterials'[m].DiffuseAlbedo = mMaterials[m].DiffuseAlbedo
                /\ mMaterials'[m].Roughness = mMaterials[m].Roughness
                /\ mMaterials[m].NumFramesDirty = 0 =>
                      /\ mMaterials'[m].NumFramesDirty = 0
                      /\ \A s \in Slots :
                            mFrameResources'[s].MaterialCB[mMaterials[m].MatCBIndex]
                                = mFrameResources[s].MaterialCB[mMaterials[m].MatCBIndex]
          /\ \A s \in Slots \ {mCurrFrameResourceIndex} :
                /\ mFrameResources'[s].ObjectCB = mFrameResources[s].ObjectCB
                /\ mFrameResources'[s].MaterialCB = mFrameResources[s].MaterialCB
      ]_vars

\* A material flush has just written the water material and passed over a
\* settled one.
C9_Witness ==
    /\ pc = "UpdateMainPassCB"
    /\ lastWrites # {}
    /\ \E m \in Mats : mMaterials[m].NumFramesDirty = 0 /\ \A w \in lastWrites : w[3] # m

\* C10. Every dirty counter stays in 0..N, and from one state to the next it
\* is unchanged, one lower, or set to N by the edit in AnimateMaterials.
DirtyCounters ==
    {mAllRitems[i].NumFramesDirty : i \in Ritems} \cup {mMaterials[m].NumFramesDirty : m \in Mats}

C10_CounterRange ==
    [][ /\ DirtyCounters \subseteq 0..gNumFrameResources
        /\ DirtyCounters' \subseteq 0..gNumFrameResources
        /\ \A i \in Ritems :
              mAllRitems'[i].NumFramesDirty \in
                  {mAllRitems[i].NumFramesDirty, mAllRitems[i].NumFramesDirty - 1}
        /\ \A m \in Mats :
              \/ mMaterials'[m].NumFramesDirty \in
                    {mMaterials[m].NumFramesDirty, mMaterials[m].NumFramesDirty - 1}
              \/ mMaterials'[m].NumFramesDirty = gNumFrameResources /\ pc = "AnimateMaterials"
      ]_vars

\* Settled entries next to the water material in mid-propagation.
C10_Witness ==
    /\ \E i \in Ritems : mAllRitems[i].NumFramesDirty = 0
    /\ mMaterials[WaterMatCBIndex].NumFramesDirty = gNumFrameResources - 1


\* ------------------------------------------------------- order of a tick
IsPrefix(p, q) == Len(p) <= Len(q) /\ \A k \in 1..Len(p) : p[k] = q[k]

\* Update and Draw as the code runs them: the constant buffers are flushed
\* before the wave simulation is advanced and copied.
TickOrder == <<"Acquire", "FlushObjects", "FlushMaterials", "Step", "Copy", "Record", "Publish">>

\* The order (a)..(f) of the claim: the wave step and copy come before the flushes.
ClaimedTickOrder == <<"Acquire", "Step", "Copy", "FlushObjects", "FlushMaterials", "Record", "Publish">>

BuffersOf(s) ==
    <<mFrameResources[s].ObjectCB, mFrameResources[s].MaterialCB, mFrameResources[s].PassCB,
      mFrameResources[s].WavesVB, mFrameResources[s].CmdListAlloc>>

\* The CPU holds the slot it acquired last: acquired, and not yet published.
CpuOwns(s) ==
    /\ tickSteps # << >>
    /\ tickSteps[Len(tickSteps)] # "Publish"
    /\ s = acquired[Len(acquired)]

\* Command lists bound to a frame slot that a step adds to the queue.
ListsEnqueued ==
    {k \in (Len(mCommandQueue) + 1)..Len(mCommandQueue') :
        mCommandQueue'[k].op = "ExecuteCommandLists" /\ mCommandQueue'[k].slot \in Slots}

\* C12. CPU writes to a slot's buffers happen only between that slot's
\* acquisition and its publish: every step that writes a buffer of a slot
\* (Update, Draw, the mouse handler, resize) writes the slot acquired last and
\* not yet published; and the slot passes to the GPU exactly once per tick: a
\* command list is enqueued only by the publish of the tick, one list, bound to
\* that slot, after which the CPU does not own the slot until it acquires it
\* again.
C12_OwnershipWindow ==
    [][ /\ \A s \in Slots :
              (BuffersOf(s)' # BuffersOf(s) \/ (lastWrites' # lastWrites /\ \E w \in lastWrites' : w[1] = s))
                  => CpuOwns(s)
        /\ ListsEnqueued # {} =>
              /\ Cardinality(ListsEnqueued) = 1
              /\ \A k \in ListsEnqueued : CpuOwns(mCommandQueue'[k].slot)
              /\ tickSteps = SubSeq(TickOrder, 1, Len(TickOrder) - 1)
              /\ tickSteps' = TickOrder
              /\ \A s \in Slots : ~CpuOwns(s)'
        /\ (pc' = "Idle" /\ tick > 0 /\ tickSteps' # tickSteps) => ListsEnqueued # {}
      ]_vars

\* Between two ticks the mouse has moved the camera while earlier slots are
\* still with the GPU.
C12_Witness ==
    /\ pc = "Idle"
    /\ tick > gNumFrameResources
    /\ mRadius # InitialRadius
    /\ mEyePos = InitialRadius
    /\ \E s \in Slots : InFlight(s)


\* --------------------------------------------------------------- the ring
\* C13. Successive Updates acquire the slots round-robin: exactly N = 3 slots
\* exist, the index always lies in 0..N-1, the slot acquired by a tick is the
\* one after the slot of the tick before, modulo N, and any N consecutive
\* ticks acquire N different slots, i.e. each slot exactly once.
C13_RoundRobin ==
    /\ gNumFrameResources = 3
    /\ DOMAIN mFrameResources = 0 .. (gNumFrameResources - 1)
    /\ Cardinality(DOMAIN mFrameResources) = gNumFrameResources
    /\ mCurrFrameResourceIndex \in 0 .. (gNumFrameResources - 1)
    /\ Len(acquired) = tick
    /\ tick > 0 => acquired[tick] = mCurrFrameResourceIndex
    /\ \A k \in 2..Len(acquired) : acquired[k] = (acquired[k - 1] + 1) % gNumFrameResources
    /\ \A k \in 1..Len(acquired) :
          k + gNumFrameResources - 1 <= Len(acquired) =>
              /\ {acquired[j] : j \in k..(k + gNumFrameResources - 1)} = DOMAIN mFrameResources
              /\ \A i, j \in k..(k + gNumFrameResources - 1) : i # j => acquired[i] # acquired[j]

\* The ring has gone round once and the first slot is acquired again.
C13_Witness ==
    /\ Len(acquired) > gNumFrameResources
    /\ acquired[Len(acquired)] = acquired[1]


\* ------------------------------------------------------------- device loss
\* The CPU waits in Update for a fence value the failed GPU will never reach.
WaitsOnLostDevice ==
    /\ gpuHung
    /\ pc = "WaitForSingleObject"
    /\ completed < Fence(mCurrFrameResourceIndex)

\* C14 as stated: when the completed value never reaches the fence value an
\* acquisition waits for, the wait does not last forever: the program can
\* still take a step, the one that ends the wait with the device-loss error
\* and carries it to the caller of the tick.
C14_WaitEndsInDeviceLoss ==
    WaitsOnLostDevice => ENABLED <<NextDeviceLost>>_vars


\* ------------------------------------------------------------ liveness
InUpdate ==
    pc \in {"SetEventOnCompletion", "WaitForSingleObject", "AnimateMaterials", "UpdateObjectCBs",
            "UpdateMaterialCBs", "UpdateMainPassCB", "UpdateWaves"}

\* Update has returned to Run, thrown, or ended the process.
UpdateEnded == pc = "Draw" \/ thrown \/ pc = "AccessViolation"

\* The CPU is blocked in the acquisition.
AcquireBlocked ==
    pc = "WaitForSingleObject" /\ completed < Fence(mCurrFrameResourceIndex)

\* C15. With a GPU that completes whatever has been enqueued, every
\* acquisition that blocks returns, every Update comes to its end, and the
\* pair never deadlocks: while the CPU is blocked the GPU has a step to take.
C15_AcquisitionReturns ==
    /\ AcquireBlocked ~> (pc = UpdateCalls[1])
    /\ InUpdate ~> UpdateEnded
    /\ [](AcquireBlocked => ENABLED (GpuBegin \/ GpuEnd \/ GpuSignal))

\* The CPU is blocked on the slot of three ticks ago while the GPU is busy
\* with work submitted before it.
C15_Witness ==
    /\ AcquireBlocked
    /\ tick > gNumFrameResources
    /\ gpu.busy


\* ------------------------------------------------------------- shutdown
\* The highest fence value Draw has published.
RECURSIVE MaxFence(_)
MaxFence(S) ==
    IF S = {} THEN 0
    ELSE LET s == CHOOSE x \in S : TRUE
             m == MaxFence(S \ {s})
         IN  IF Fence(s) > m THEN Fence(s) ELSE m

\* C16. On shutdown nothing is released before the GPU is drained: once the
\* destructor has released the frame resources, the completed value has
\* reached the highest fence value ever published and no command list bound to
\* a slot is queued or executing; and the destructor is left only in such a
\* state.
C16_DrainedBeforeRelease ==
    /\ pc = "Released" =>
          /\ completed >= MaxFence(Slots)
          /\ \A s \in Slots : ~InFlight(s)
          /\ ~gpu.busy
    /\ pc = "~TreeBillboardsApp" => mCurrentFence > MaxFence(Slots)

\* The application has quit with every slot submitted.
C16_Witness ==
    /\ pc = "Released"
    /\ ~thrown
    /\ tick > gNumFrameResources
    /\ \A s \in Slots : Fence(s) # 0


\* ------------------------------------------------- what Draw records
\* The slot Update acquired in the current tick.
PreparedSlot == acquired[Len(acquired)]

\* C17. Draw records and submits against the slot prepared by the Update of
\* the same tick: the command allocator, the pass, object and material
\* constants and the wave render item's vertex buffer bound by the recorded
\* commands all belong to that slot, the submitted list is that recording, and
\* the new fence value is recorded on that slot and on no other.
C17_DrawUsesPreparedSlot ==
    [][ /\ pc' = "DrawSubmit" =>
              /\ DOMAIN mCommandListBinds' = {"CmdListAlloc", "PassCB", "ObjectCB", "MaterialCB", "WavesVB"}
              /\ \A b \in DOMAIN mCommandListBinds' : mCommandListBinds'[b] = PreparedSlot'
              /\ mCommandList' = PreparedSlot'
        /\ ListsEnqueued # {} =>
              /\ \A k \in ListsEnqueued : mCommandQueue'[k].slot = PreparedSlot
              /\ \A b \in DOMAIN mCommandListBinds : mCommandListBinds[b] = PreparedSlot
              /\ Fence(PreparedSlot)' = mCurrentFence'
              /\ Fence(PreparedSlot)' # Fence(PreparedSlot)
              /\ \A s \in Slots \ {PreparedSlot} : Fence(s)' = Fence(s)
      ]_vars

\* Draw has recorded its commands on a slot that is in use for the second time.
C17_Witness ==
    /\ pc = "DrawSubmit"
    /\ tick > gNumFrameResources
    /\ mCommandListBinds.WavesVB = mCurrFrameResourceIndex


\* ------------------------------------------------------ blocking steps
\* C18. The acquisition is the only step of a tick that waits for the GPU:
\* the test of the slot's fence, the edits and flushes, the wave step and
\* copy, the recording, the submission and the publish can each be taken in
\* whatever state the GPU is, even a GPU that has stopped; and the wait of the
\* acquisition is held back by nothing but a completed value below the
\* slot's Fence.
C18_OnlyAcquireBlocks ==
    /\ (pc = "Idle" /\ tick < MaxTicks) => ENABLED UpdateAcquire
    /\ pc = "SetEventOnCompletion" => ENABLED SetEventOnCompletion
    /\ pc = "AnimateMaterials" => ENABLED AnimateMaterials
    /\ pc = "UpdateObjectCBs" => ENABLED UpdateObjectCBs
    /\ pc = "UpdateMaterialCBs" => ENABLED UpdateMaterialCBs
    /\ pc = "UpdateMainPassCB" => ENABLED UpdateMainPassCB
    /\ pc = "UpdateWaves" => ENABLED UpdateWaves
    /\ pc = "Draw" => ENABLED Draw
    /\ pc = "DrawRecord" => ENABLED DrawRecord
    /\ pc = "DrawSubmit" => ENABLED DrawSubmit
    /\ pc = "WaitForSingleObject" =>
          (ENABLED WaitForSingleObject <=> completed >= Fence(mCurrFrameResourceIndex))

\* Draw is about to submit a third frame to a GPU that has stopped with the
\* two frames before it still in flight.
C18_Witness ==
    /\ pc = "DrawSubmit"
    /\ gpuHung
    /\ Cardinality({s \in Slots : InFlight(s)}) = gNumFrameResources - 1


\* ------------------------------------------------- Fence = 0, never submitted
\* C19. A slot's Fence is 0 if and only if Draw has never submitted the slot:
\* the slots are built with Fence 0, every value Draw records is at least 1,
\* and no step puts a non-zero Fence back to 0.
C19_ZeroIffNeverSubmitted ==
    [][ /\ \A s \in Slots : Fence(s) = 0 <=> s \notin submitted
        /\ \A s \in Slots : Fence(s)' = 0 <=> s \notin submitted'
        /\ \A s \in Slots :
              /\ Fence(s) # 0 => Fence(s)' # 0
              /\ Fence(s)' # Fence(s) => (Fence(s)' >= 1 /\ s \in submitted')
      ]_vars

\* After the first Draw one slot has been submitted and the others have not.
C19_Witness ==
    /\ pc = "Idle"
    /\ submitted # {}
    /\ \E s \in Slots : s \notin submitted /\ Fence(s) = 0
    /\ \E s \in Slots : s \in submitted /\ Fence(s) >= 1


\* ------------------------------------------------------- the wave vertex copy
\* C20. The UpdateWaves step of a tick first advances the height field and then
\* writes every sample 0 .. VertexCount-1 of the advanced field, each exactly
\* once, into the wave vertex buffer of the slot acquired in that tick; the
\* wave vertex buffers of the other slots keep their contents, and no other
\* step of the program writes a wave vertex buffer.
C20_WavesCopiedToCurrentSlot ==
    [][ IF pc = "UpdateWaves" /\ pc' # "UpdateWaves"
        THEN /\ CurrSlot = acquired[Len(acquired)]
             /\ mWaves'.steps = mWaves.steps + (mWaves.t + gt.DeltaTime) \div WavesTimeStep
             /\ DOMAIN mFrameResources'[CurrSlot].WavesVB = 0 .. (VertexCount - 1)
             /\ \A v \in 0 .. (VertexCount - 1) :
                   /\ mFrameResources'[CurrSlot].WavesVB[v] = WavesVertex(mWaves', v)
                   /\ Cardinality({k \in 1 .. Len(wavesCopied') : wavesCopied'[k] = v}) = 1
             /\ Len(wavesCopied') = VertexCount
             /\ \A s \in Slots \ {CurrSlot} :
                   mFrameResources'[s].WavesVB = mFrameResources[s].WavesVB
        ELSE \A s \in Slots : mFrameResources'[s].WavesVB = mFrameResources[s].WavesVB
      ]_vars

\* The first tick has advanced the field and filled its slot's wave vertex
\* buffer, and no sample of another slot's buffer has been written.
C20_Witness ==
    /\ pc = "Draw"
    /\ mWaves.steps > 0
    /\ Len(wavesCopied) = VertexCount
    /\ \A v \in 0 .. (VertexCount - 1) :
          mFrameResources[CurrSlot].WavesVB[v] = WavesVertex(mWaves, v)
    /\ \E s \in Slots \ {CurrSlot} :
          \A v \in 0 .. (VertexCount - 1) : mFrameResources[s].WavesVB[v] = Uninit


\* ------------------------------------------------------ fixed-step determinism
\* C21. However the elapsed time T was cut into calls of Update, the height
\* field has taken floor(T / dt) simulation steps in total, and what is left
\* in its accumulator is the remainder of T.
C21_FixedStepDeterminism ==
    /\ hf.steps = hfElapsed \div WavesTimeStep
    /\ hf.t = hfElapsed % WavesTimeStep

\* Three or more calls, none a multiple of the time step in total, have
\* produced two or more steps.
C21_Witness ==
    /\ hfCalls >= 3
    /\ hfCall[1] = "Update"
    /\ hf.steps >= 2
    /\ hf.t # 0


\* ---------------------------------------------------------- boundary invariant
\* The samples of the outer boundary of w: first and last row and column.
BoundaryOf(w) ==
    {v \in DOMAIN w.Curr : ~InteriorCell(w, v \div w.cols, v % w.cols)}

C23_OutOfRangeDisturbRejected ==
    [][ (/\ hfCalls' = hfCalls + 1
         /\ hfCall'[1] = "Disturb"
         /\ ~InteriorCell(hf, hfCall'[2], hfCall'[3]))
        => (hf' = hf /\ hfRejected')
      ]_vars

\* A disturbance aimed at the boundary or past the grid has just been
\* rejected by a field that an earlier disturbance and step had set in motion.
C23_Witness ==
    /\ hfCalls >= 3
    /\ hfCall[1] = "Disturb"
    /\ ~InteriorCell(hf, hfCall[2], hfCall[3])
    /\ hfRejected
    /\ hf.steps >= 1
    /\ \E v \in DOMAIN hf.Curr : hf.Curr[v] # 0


\* ------------------------------------------------------- no stale replica drawn
\* The constants the recorded commands read for render item i and material m:
\* lines 2327-2328 address element ObjCBIndex / MatCBIndex of the bound slot's
\* buffers.
DrawnObjectConstants(i) ==
    mFrameResources[mCommandListBinds.ObjectCB].ObjectCB[mAllRitems[i].ObjCBIndex]
DrawnMaterialConstants(m) ==
    mFrameResources[mCommandListBinds.MaterialCB].MaterialCB[mMaterials[m].MatCBIndex]

\* The flushes of the current tick have run and Draw has not yet submitted.
FlushedNotSubmitted == pc \in {"UpdateMainPassCB", "UpdateWaves", "Draw", "DrawRecord", "DrawSubmit"}

C25_ObjCBIndexInBuffer ==
    /\ \A i, j \in Ritems : i # j => mAllRitems[i].ObjCBIndex # mAllRitems[j].ObjCBIndex
    /\ \A i \in Ritems : mAllRitems[i].ObjCBIndex < ObjectCBCount
    /\ \A w \in lastWrites : w[2] = "ObjectCB" => w[3] < ObjectCBCount


\* --------------------------------------------------------- frames in flight
\* Frames Draw has published whose fence value the GPU has not reached.
FramesAhead == Cardinality({f \in published : completed < f})

\* The CPU has acquired the slot of the current tick and not yet published it.
CpuWriting ==
    pc \in {"AnimateMaterials", "UpdateObjectCBs", "UpdateMaterialCBs", "UpdateMainPassCB",
            "UpdateWaves", "Draw", "DrawRecord", "DrawSubmit"}

\* C26. The CPU never runs more than N frames ahead of the GPU: at most N
\* published frames are unfinished at any time, and at most N - 1 while the
\* CPU is writing the slot it has acquired.
C26_AtMostNFramesAhead ==
    /\ FramesAhead <= gNumFrameResources
    /\ CpuWriting => FramesAhead <= gNumFrameResources - 1

\* Both bounds are met: the CPU waits with N frames unfinished, and it writes
\* a slot with N - 1 unfinished.
C26_Witness ==
    /\ pc = "WaitForSingleObject"
    /\ FramesAhead = gNumFrameResources
    /\ ENABLED GpuSignal

\* The CPU writes a slot while N - 1 frames are unfinished.
C26_WitnessWriting ==
    /\ CpuWriting
    /\ tick > gNumFrameResources
    /\ FramesAhead = gNumFrameResources - 1


\* ------------------------------------------------- entries written N times
\* Slots whose flush has run to its end, for the first n flushes.
SlotsFlushed(n) == {acquired[k] : k \in 1 .. n}

WaterDirty == mMaterials[WaterMatCBIndex].NumFramesDirty
WaterElem(s) == <<s, "MaterialCB", mMaterials[WaterMatCBIndex].MatCBIndex>>

\* C28. Water is marked dirty in every tick, after the slot has been
\* acquired and before the materials are flushed; the flush of every tick
\* therefore rewrites water's copy in the acquired slot, its counter is N - 1
\* when Update returns, and it is never 0.
C28_WaterRewrittenEveryTick ==
    /\ [](WaterDirty >= 1 /\ (pc = "Draw" => WaterDirty = gNumFrameResources - 1))
    /\ [][ /\ (pc = "AnimateMaterials" /\ pc' # pc) =>
                 /\ tickSteps = <<"Acquire">>
                 /\ WaterDirty' = gNumFrameResources
           /\ MaterialFlushStep =>
                 /\ CurrSlot = PreparedSlot
                 /\ WaterDirty = gNumFrameResources
                 /\ flushCount'[WaterElem(CurrSlot)] = flushCount[WaterElem(CurrSlot)] + 1
                 /\ mFrameResources'[CurrSlot].MaterialCB[WaterMatCBIndex]
                       = MaterialConstantsOf(mMaterials[WaterMatCBIndex])
       ]_vars

\* Update has returned in a tick after the N-th: water has been written a
\* second time into the slot and its counter is N - 1.
C28_Witness ==
    /\ pc = "Draw"
    /\ tick > gNumFrameResources
    /\ WaterDirty = gNumFrameResources - 1
    /\ flushCount[WaterElem(CurrSlot)] = 2


\* ------------------------------------------------------ texture descriptors
\* C29. Every descriptor BuildDescriptorHeaps writes and every material's
\* DiffuseSrvHeapIndex lies inside the shader-resource descriptor heap, below
\* its NumDescriptors, and the descriptor a material selects is the view of
\* that material's own texture.
C29_DescriptorsInHeap ==
    /\ \A d \in DOMAIN mSrvDescriptorHeap : d < SrvHeapNumDescriptors
    /\ \A m \in DOMAIN DiffuseSrvHeapIndex :
          /\ DiffuseSrvHeapIndex[m] < SrvHeapNumDescriptors
          /\ DiffuseSrvHeapIndex[m] \in DOMAIN mSrvDescriptorHeap
          /\ mSrvDescriptorHeap[DiffuseSrvHeapIndex[m]] = MaterialTexture[m]


\* ------------------------------------------------------------ event handles
\* C30. An event handle created by a blocking acquisition is open only while
\* Update waits on it: whenever control is outside that wait, also after
\* SetEventOnCompletion has failed and the exception has left Update, no
\* event handle is open.
C30_EventHandleClosed ==
    pc # "WaitForSingleObject" => eventHandles = 0

====
